---- MODULE Spec2Model ----
(***************************************************************************)
(* tsfresh/feature_extraction/settings.py                                  *)
(*                                                                         *)
(* from_columns (the column-name parser) and the FCParameters family (the  *)
(* comprehensive set and its four filtered variants).                      *)
(*                                                                         *)
(* Python strings are sequences of one-character strings, so that          *)
(* str.split('__') and the parameter codec are computed, not assumed.      *)
(* A Python object that may or may not be a str is a record                *)
(* [type, text]; a dict is a function; a dict value that is None or a list *)
(* is a record [none, list].                                               *)
(***************************************************************************)
EXTENDS Integers, Sequences, FiniteSets, TLC

VARIABLES
    registry,               \* feature_calculators.__dict__ : name -> object
    columns,                \* from_columns argument
    columns_to_ignore,      \* from_columns argument (after the None default)
    idx,                    \* position of the for loop over columns
    kind_to_fc_parameters,  \* local dict of from_columns
    outcome,                \* "running", "returned" or the exception raised
    variant,                \* which settings class was constructed ("none" before)
    self,                   \* the constructed settings object
    comprehensive           \* ComprehensiveFCParameters() on the same registry

vars == <<registry, columns, columns_to_ignore, idx, kind_to_fc_parameters,
          outcome, variant, self, comprehensive>>

parserVars == <<columns, columns_to_ignore, idx, kind_to_fc_parameters, outcome>>
settingsVars == <<variant, self, comprehensive>>

----------------------------------------------------------------------------
(* Bounds *)

MaxColumns == 3

----------------------------------------------------------------------------
(* Python values *)

None == [none |-> TRUE, list |-> <<>>]
List(l) == [none |-> FALSE, list |-> l]

Str(chars) == [type |-> "str", text |-> chars]
Int42 == [type |-> "int", text |-> <<"4", "2">>]

EmptyDict == <<>>

\* d[k] = v on a dict
DictSet(d, k, v) == [x \in (DOMAIN d) \cup {k} |-> IF x = k THEN v ELSE d[x]]

\* del d[k]
DictDel(d, k) == [x \in (DOMAIN d) \ {k} |-> d[x]]

----------------------------------------------------------------------------
(* Names, as Python strings *)

kind_k == <<"k">>
kind_j == <<"j">>
kind_x == <<"x">>
mean == <<"m", "e", "a", "n">>
np == <<"n", "p">>
nope == <<"n", "o", "p", "e">>
quantile == <<"q", "u", "a", "n", "t", "i", "l", "e">>
Sep == <<"_", "_">>

----------------------------------------------------------------------------
(* str.split and str.join on '__' : left to right, non-overlapping *)

RECURSIVE SplitFrom(_, _, _, _)
SplitFrom(s, i, cur, acc) ==
    IF i > Len(s) THEN Append(acc, cur)
    ELSE IF i < Len(s) /\ s[i] = "_" /\ s[i + 1] = "_"
         THEN SplitFrom(s, i + 2, <<>>, Append(acc, cur))
         ELSE SplitFrom(s, i + 1, Append(cur, s[i]), acc)

\* '__'.join(fields)
RECURSIVE join(_)
join(fields) ==
    IF Len(fields) = 0 THEN <<>>
    ELSE IF Len(fields) = 1 THEN fields[1]
    ELSE fields[1] \o Sep \o join(Tail(fields))

\* col.split('__', 2)
SplitAtMostTwice(s) ==
    LET parts == SplitFrom(s, 1, <<>>, <<>>)
    IN  IF Len(parts) <= 3 THEN parts
        ELSE <<parts[1], parts[2], join(SubSeq(parts, 3, Len(parts)))>>

\* col.split('__')
split(s) == SplitFrom(s, 1, <<>>, <<>>)

----------------------------------------------------------------------------
(* Config String Codec: tsfresh.utilities.string_manipulation *)

Digits == <<"0", "1", "2", "3", "4", "5", "6", "7", "8", "9">>
IsDigit(c) == \E d \in 1..10 : Digits[d] = c
DigitValue(c) == (CHOOSE d \in 1..10 : Digits[d] = c) - 1

RECURSIVE ParseNat(_)
ParseNat(t) ==
    IF Len(t) = 0 THEN 0
    ELSE 10 * ParseNat(SubSeq(t, 1, Len(t) - 1)) + DigitValue(t[Len(t)])

IsNatText(t) == Len(t) > 0 /\ \A i \in 1..Len(t) : IsDigit(t[i])

\* the typed value of a value text; defined on integer literals only
literal_eval(t) ==
    CASE IsNatText(t) -> ParseNat(t)
      [] Len(t) > 1 /\ t[1] = "-" /\ IsNatText(Tail(t)) -> 0 - ParseNat(Tail(t))

RECURSIVE NatText(_)
NatText(n) ==
    IF n < 10 THEN <<Digits[n + 1]>>
    ELSE NatText(n \div 10) \o <<Digits[(n % 10) + 1]>>

\* str(value) of an integer
str(n) == IF n < 0 THEN <<"-">> \o NatText(0 - n) ELSE NatText(n)

\* position of the last "_" of a token (s.rsplit("_", 1))
LastUnderscore(t) ==
    CHOOSE i \in 1..Len(t) : t[i] = "_" /\ \A m \in (i + 1)..Len(t) : t[m] # "_"

TokenName(t) == SubSeq(t, 1, LastUnderscore(t) - 1)
TokenValue(t) == SubSeq(t, LastUnderscore(t) + 1, Len(t))

NoConfig == [none |-> TRUE, dict |-> EmptyDict]

\* the fields after kind and calculator name, decoded into one parameter
\* dict; a falsy result when there are none.  A later token for the same
\* parameter name replaces an earlier one.
get_config_from_string(parts) ==
    LET relevant_parts == SubSeq(parts, 3, Len(parts))
        names == {TokenName(relevant_parts[i]) : i \in 1..Len(relevant_parts)}
        last(nm) == CHOOSE i \in 1..Len(relevant_parts) :
                        /\ TokenName(relevant_parts[i]) = nm
                        /\ \A m \in (i + 1)..Len(relevant_parts) :
                               TokenName(relevant_parts[m]) # nm
    IN  IF Len(relevant_parts) = 0 THEN NoConfig
        ELSE [none |-> FALSE,
              dict |-> [nm \in names |->
                           literal_eval(TokenValue(relevant_parts[last(nm)]))]]

\* Python truthiness of the codec's result ("if config:")
Truthy(config) == ~config.none /\ DOMAIN config.dict # {}

\* one parameter token  <param>_<value>
Token(name, value) == name \o <<"_">> \o str(value)

\* the tokens of a parameter dict, one per parameter
RECURSIVE Tokens(_)
Tokens(d) ==
    IF DOMAIN d = {} THEN <<>>
    ELSE LET nm == CHOOSE x \in DOMAIN d : TRUE
         IN  <<Token(nm, d[nm])>> \o Tokens(DictDel(d, nm))

\* naming convention  <kind>__<calculator>[__<param>_<value>]*
ColumnName(kind, calculator, d) == Str(join(<<kind, calculator>> \o Tokens(d)))

----------------------------------------------------------------------------
(* Calculator Registry: the attributes of module feature_calculators *)

Flag == {"absent", "false", "true"}

\* the objects a module attribute can be
Objects ==
    [callable : BOOLEAN,            \* callable(func)
     fctype : BOOLEAN,              \* hasattr(func, "fctype")
     nargs : {1, 2},                \* len(getfullargspec(func).args)
     minimal : Flag,
     high_comp_cost : Flag,
     input : {"absent", "pd.Series", "other"},
     index_type : {"absent", "DatetimeIndex", "other"}]

\* hasattr(feature_calculators, name)
hasattr_module(reg, name) == name \in DOMAIN reg

\* the registry entries of the spec: callables tagged with capability metadata
IsCalculator(reg, name) ==
    name \in DOMAIN reg /\ reg[name].callable /\ reg[name].fctype

----------------------------------------------------------------------------
(* from_columns *)

\* col in columns_to_ignore
InIgnore(col, ignore) == \E i \in 1..Len(ignore) : ignore[i] = col

\* kind_to_fc_parameters after "if kind not in ...: ...[kind] = {}"
WithKind(ktf, kind) ==
    IF kind \in DOMAIN ktf THEN ktf ELSE DictSet(ktf, kind, EmptyDict)

\* kind_to_fc_parameters[kind][feature_name] = value
SetEntry(ktf, kind, feature_name, value) ==
    DictSet(ktf, kind, DictSet(ktf[kind], feature_name, value))

\* kind_to_fc_parameters[kind][feature_name].append(config)
AppendPrepended(list, config) == <<config>> \o list
append(list, config) == Append(list, config)

\* the value stored for a column without parameter fields
NoConfigKeepsOld(ktf, kind, feature_name) ==
    IF feature_name \in DOMAIN ktf[kind] THEN ktf[kind][feature_name] ELSE None
NoConfigValue(ktf, kind, feature_name) == None

\* One iteration of the for loop on col.  branch names the path taken,
\* raised the exception that ends the call ("" when the loop goes on) and
\* ktf the local dict afterwards.
LoopBody(ktf, col, ignore, reg) ==
    IF InIgnore(col, ignore)
    THEN [branch |-> "continue", raised |-> "", ktf |-> ktf]
    ELSE IF col.type # "str"
    THEN [branch |-> "not_str", raised |-> "TypeError", ktf |-> ktf]
    ELSE
    LET parts == split(col.text)
        n_parts == Len(parts)
    IN  IF n_parts = 1
        THEN [branch |-> "one_part", raised |-> "ValueError", ktf |-> ktf]
        ELSE
        LET kind == parts[1]
            feature_name == parts[2]
            ktf1 == WithKind(ktf, kind)
        IN  IF ~hasattr_module(reg, feature_name)
            THEN [branch |-> "unknown", raised |-> "ValueError", ktf |-> ktf1]
            ELSE
            LET config == get_config_from_string(parts)
            IN  IF Truthy(config)
                THEN IF feature_name \in DOMAIN ktf1[kind]
                     THEN IF ktf1[kind][feature_name].none
                          \* None has no attribute append
                          THEN [branch |-> "append_none",
                                raised |-> "AttributeError", ktf |-> ktf1]
                          ELSE [branch |-> "append", raised |-> "",
                                ktf |-> SetEntry(ktf1, kind, feature_name,
                                           List(append(ktf1[kind][feature_name].list,
                                                       config.dict)))]
                     ELSE [branch |-> "create", raised |-> "",
                           ktf |-> SetEntry(ktf1, kind, feature_name,
                                            List(<<config.dict>>))]
                ELSE [branch |-> "set_none", raised |-> "",
                      ktf |-> SetEntry(ktf1, kind, feature_name,
                                       NoConfigValue(ktf1, kind, feature_name))]

\* the whole call, from position i with local dict ktf
RECURSIVE Loop(_, _, _, _, _)
Loop(ktf, cols, i, ignore, reg) ==
    IF i > Len(cols) THEN [raised |-> "", ktf |-> ktf]
    ELSE LET r == LoopBody(ktf, cols[i], ignore, reg)
         IN  IF r.raised # "" THEN [raised |-> r.raised, ktf |-> r.ktf]
             ELSE Loop(r.ktf, cols, i + 1, ignore, reg)

from_columns(cols, ignore, reg) == Loop(EmptyDict, cols, 1, ignore, reg)

\* the column the loop is about to process
AtColumn == outcome = "running" /\ idx <= Len(columns)
col == columns[idx]

\* the path the loop body takes on the current column
Branch ==
    LoopBody(kind_to_fc_parameters, col, columns_to_ignore, registry).branch

\* The loop body on the current column: the loop goes on to the next column
\* or the call ends with the exception raised.
Iterate ==
    LET r == LoopBody(kind_to_fc_parameters, col, columns_to_ignore, registry)
    IN  /\ kind_to_fc_parameters' = r.ktf
        /\ outcome' = IF r.raised = "" THEN "running" ELSE r.raised
        /\ idx' = IF r.raised = "" THEN idx + 1 ELSE idx
        /\ UNCHANGED <<registry, columns, columns_to_ignore, settingsVars>>

SkipIgnored ==
    /\ AtColumn /\ Branch = "continue"
    /\ Iterate

RaiseNotString ==
    /\ AtColumn /\ Branch = "not_str"
    /\ Iterate

RaiseOnePart ==
    /\ AtColumn /\ Branch = "one_part"
    /\ Iterate

RaiseUnknownFeature ==
    /\ AtColumn /\ Branch = "unknown"
    /\ Iterate

AppendConfig ==
    /\ AtColumn /\ Branch = "append"
    /\ Iterate

AppendToNone ==
    /\ AtColumn /\ Branch = "append_none"
    /\ Iterate

CreateList ==
    /\ AtColumn /\ Branch = "create"
    /\ Iterate

SetNone ==
    /\ AtColumn /\ Branch = "set_none"
    /\ Iterate

Return ==
    /\ outcome = "running"
    /\ idx > Len(columns)
    /\ outcome' = "returned"
    /\ UNCHANGED <<registry, columns, columns_to_ignore, idx,
                   kind_to_fc_parameters, settingsVars>>

----------------------------------------------------------------------------
(* Inputs of from_columns *)

param_q == <<"q">>
param_max_bins == <<"m", "a", "x", "_", "b", "i", "n", "s">>
id == <<"i", "d">>

ColumnPool ==
    { Str(join(<<kind_k, mean>>)),
      Str(join(<<kind_k, quantile>>)),
      Str(join(<<kind_k, quantile, Token(param_q, 1)>>)),
      Str(join(<<kind_k, quantile, Token(param_q, 2)>>)),
      Str(join(<<kind_j, quantile, Token(param_q, 1)>>)),
      Str(join(<<kind_k, np>>)),
      Str(join(<<kind_k, nope>>)),
      Str(id),
      Int42 }

RECURSIVE ListsUpTo(_, _)
ListsUpTo(S, n) ==
    IF n = 0 THEN {<<>>}
    ELSE LET shorter == ListsUpTo(S, n - 1)
         IN  shorter \cup {Append(l, e) : l \in {m \in shorter : Len(m) = n - 1}, e \in S}

\* a module-level import such as numpy: an attribute that is no calculator
ModuleObject ==
    [callable |-> FALSE, fctype |-> FALSE, nargs |-> 1, minimal |-> "absent",
     high_comp_cost |-> "absent", input |-> "absent", index_type |-> "absent"]

\* a calculator tagged with fctype taking nargs arguments
Calculator(nargs) ==
    [callable |-> TRUE, fctype |-> TRUE, nargs |-> nargs, minimal |-> "absent",
     high_comp_cost |-> "absent", input |-> "absent", index_type |-> "absent"]

\* a function from the pairs of a relation given as a set of <<name, object>>
ModuleDict(pairs) ==
    [nm \in {p[1] : p \in pairs} |-> (CHOOSE p \in pairs : p[1] = nm)[2]]

ParserRegistries ==
    { ModuleDict({<<quantile, Calculator(2)>>} \cup m \cup n) :
        m \in {{}, {<<mean, Calculator(1)>>}},
        n \in {{}, {<<np, ModuleObject>>}} }

Init ==
    /\ registry \in ParserRegistries
    /\ columns \in ListsUpTo(ColumnPool, MaxColumns)
    /\ columns_to_ignore \in {<<>>, <<Str(id)>>}
    /\ idx = 1
    /\ kind_to_fc_parameters = EmptyDict
    /\ outcome = "running"
    /\ variant = "none"
    /\ self = EmptyDict
    /\ comprehensive = EmptyDict

Next ==
    \/ SkipIgnored
    \/ RaiseNotString
    \/ RaiseOnePart
    \/ RaiseUnknownFeature
    \/ AppendConfig
    \/ AppendToNone
    \/ CreateList
    \/ SetNone
    \/ Return

Spec == Init /\ [][Next]_vars

----------------------------------------------------------------------------
(* Properties of from_columns *)

\* a column the loop does not skip and that names a module attribute
Accepted(c) ==
    /\ ~InIgnore(c, columns_to_ignore)
    /\ c.type = "str"
    /\ Len(split(c.text)) >= 2
    /\ hasattr_module(registry, split(c.text)[2])

KindOf(c) == split(c.text)[1]
FeatureOf(c) == split(c.text)[2]
ConfigOf(c) == get_config_from_string(split(c.text))

\* the (kind, calculator) pairs that have an entry
Entries(ktf) == UNION {{<<k, f>> : f \in DOMAIN ktf[k]} : k \in DOMAIN ktf}

\* C1: a column whose parameter fields decode to a non-empty dict is
\* processed without error, whatever its pair's entry was (absent, a list or
\* None), and leaves the entry a list ending in the decoded dict.
C1_AppendAlwaysSucceeds ==
    [][(AtColumn /\ Accepted(col) /\ Truthy(ConfigOf(col)))
        => /\ outcome' = "running"
           /\ <<KindOf(col), FeatureOf(col)>> \in Entries(kind_to_fc_parameters')
           /\ LET e == kind_to_fc_parameters'[KindOf(col)][FeatureOf(col)]
              IN  /\ ~e.none
                  /\ Len(e.list) > 0
                  /\ e.list[Len(e.list)] = ConfigOf(col).dict]_vars

\* C2: no returned mapping has a key that is not a calculator of the
\* registry (a callable tagged with capability metadata).
C2_ReturnedKeysAreCalculators ==
    outcome = "returned"
        => \A p \in Entries(kind_to_fc_parameters) : IsCalculator(registry, p[2])

\* a column the claim C3 calls offending
Offending(c) ==
    /\ ~InIgnore(c, columns_to_ignore)
    /\ \/ c.type # "str"
       \/ Len(split(c.text)) < 2
       \/ ~IsCalculator(registry, split(c.text)[2])

OffendingPositions == {i \in 1..Len(columns) : Offending(columns[i])}
FirstOffending == CHOOSE i \in OffendingPositions : \A m \in OffendingPositions : i <= m

\* C3: a mapping is returned only if no column offends; otherwise the call
\* ends at the first offending column, with a type error for a non-string and
\* a value error for a single field.
C3_AbortsAtFirstOffending ==
    outcome # "running"
        => IF OffendingPositions = {}
           THEN TRUE
           ELSE /\ outcome # "returned"
                /\ idx = FirstOffending
                /\ (col.type # "str" => outcome = "TypeError")
                /\ (col.type = "str" => outcome = "ValueError")

\* the decoded dicts of the columns of pair <<k, f>> among cols, in order
RECURSIVE DecodedOf(_, _, _)
DecodedOf(cols, k, f) ==
    IF Len(cols) = 0 THEN <<>>
    ELSE LET c == Head(cols)
         IN  IF ~InIgnore(c, columns_to_ignore) /\ KindOf(c) = k /\ FeatureOf(c) = f
             THEN <<ConfigOf(c).dict>> \o DecodedOf(Tail(cols), k, f)
             ELSE DecodedOf(Tail(cols), k, f)

\* every column of pair <<k, f>> carries parameter fields
AllParameterised(k, f) ==
    \A i \in 1..Len(columns) :
        (~InIgnore(columns[i], columns_to_ignore)
            /\ KindOf(columns[i]) = k /\ FeatureOf(columns[i]) = f)
        => Len(split(columns[i].text)) > 2

\* C4: when every column of a pair carries parameter fields, the returned
\* list of the pair is the sequence of their decoded dicts in input order,
\* duplicates kept.
C4_AccumulatesInInputOrder ==
    outcome = "returned"
        => \A p \in Entries(kind_to_fc_parameters) :
              AllParameterised(p[1], p[2])
              => kind_to_fc_parameters[p[1]][p[2]]
                     = List(DecodedOf(columns, p[1], p[2]))

C4_Witness ==
    /\ outcome = "returned"
    /\ <<kind_k, quantile>> \in Entries(kind_to_fc_parameters)
    /\ kind_to_fc_parameters[kind_k][quantile]
           = List(<<[n \in {param_q} |-> 2], [n \in {param_q} |-> 1],
                    [n \in {param_q} |-> 1]>>)

\* C5: a column without parameter fields sets its pair's entry to None
\* whatever it held, and leaves the entries of all other pairs as they were.
C5_NoParamsOverwritesWithNone ==
    [][(AtColumn /\ Accepted(col) /\ Len(split(col.text)) = 2)
        => LET p == <<KindOf(col), FeatureOf(col)>>
           IN  /\ outcome' = "running"
               /\ Entries(kind_to_fc_parameters')
                      = Entries(kind_to_fc_parameters) \cup {p}
               /\ kind_to_fc_parameters'[p[1]][p[2]] = None
               /\ \A o \in Entries(kind_to_fc_parameters) \ {p} :
                      kind_to_fc_parameters'[o[1]][o[2]]
                          = kind_to_fc_parameters[o[1]][o[2]]]_vars

\* the pair's list is gone, the list of another pair is still there
C5_Witness ==
    /\ idx = 4
    /\ columns[1] = Str(join(<<kind_k, quantile, Token(param_q, 1)>>))
    /\ columns[2] = Str(join(<<kind_j, quantile, Token(param_q, 1)>>))
    /\ columns[3] = Str(join(<<kind_k, quantile>>))
    /\ kind_to_fc_parameters[kind_k][quantile] = None
    /\ kind_to_fc_parameters[kind_j][quantile] = List(<<[n \in {param_q} |-> 1]>>)

----------------------------------------------------------------------------
(* Settings objects *)

time_reversal_asymmetry_statistic ==
    <<"t", "i", "m", "e", "_", "r", "e", "v", "e", "r", "s", "a", "l", "_", "a", "s", "y", "m", "m", "e", "t", "r", "y", "_", "s", "t", "a", "t", "i", "s", "t", "i", "c">>
symmetry_looking ==
    <<"s", "y", "m", "m", "e", "t", "r", "y", "_", "l", "o", "o", "k", "i", "n", "g">>
large_standard_deviation ==
    <<"l", "a", "r", "g", "e", "_", "s", "t", "a", "n", "d", "a", "r", "d", "_", "d", "e", "v", "i", "a", "t", "i", "o", "n">>
autocorrelation ==
    <<"a", "u", "t", "o", "c", "o", "r", "r", "e", "l", "a", "t", "i", "o", "n">>
number_cwt_peaks ==
    <<"n", "u", "m", "b", "e", "r", "_", "c", "w", "t", "_", "p", "e", "a", "k", "s">>
number_peaks ==
    <<"n", "u", "m", "b", "e", "r", "_", "p", "e", "a", "k", "s">>
large_number_of_peaks ==
    <<"l", "a", "r", "g", "e", "_", "n", "u", "m", "b", "e", "r", "_", "o", "f", "_", "p", "e", "a", "k", "s">>
binned_entropy ==
    <<"b", "i", "n", "n", "e", "d", "_", "e", "n", "t", "r", "o", "p", "y">>
index_mass_quantile ==
    <<"i", "n", "d", "e", "x", "_", "m", "a", "s", "s", "_", "q", "u", "a", "n", "t", "i", "l", "e">>
cwt_coefficients ==
    <<"c", "w", "t", "_", "c", "o", "e", "f", "f", "i", "c", "i", "e", "n", "t", "s">>
spkt_welch_density ==
    <<"s", "p", "k", "t", "_", "w", "e", "l", "c", "h", "_", "d", "e", "n", "s", "i", "t", "y">>
ar_coefficient ==
    <<"a", "r", "_", "c", "o", "e", "f", "f", "i", "c", "i", "e", "n", "t">>
mean_abs_change_quantiles ==
    <<"m", "e", "a", "n", "_", "a", "b", "s", "_", "c", "h", "a", "n", "g", "e", "_", "q", "u", "a", "n", "t", "i", "l", "e", "s">>
fft_coefficient ==
    <<"f", "f", "t", "_", "c", "o", "e", "f", "f", "i", "c", "i", "e", "n", "t">>
value_count ==
    <<"v", "a", "l", "u", "e", "_", "c", "o", "u", "n", "t">>
range_count ==
    <<"r", "a", "n", "g", "e", "_", "c", "o", "u", "n", "t">>
approximate_entropy ==
    <<"a", "p", "p", "r", "o", "x", "i", "m", "a", "t", "e", "_", "e", "n", "t", "r", "o", "p", "y">>

param_lag == <<"l", "a", "g">>
param_r == <<"r">>
param_n == <<"n">>
param_widths == <<"w", "i", "d", "t", "h", "s">>
param_coeff == <<"c", "o", "e", "f", "f">>
param_w == <<"w">>
param_k == <<"k">>
param_ql == <<"q", "l">>
param_qh == <<"q", "h">>
param_value == <<"v", "a", "l", "u", "e">>
param_min == <<"m", "i", "n">>
param_max == <<"m", "a", "x">>
param_m == <<"m">>

\* a float written as a literal, and the float product  r * 0.05
Float(literal) == [float |-> literal, times |-> 1]
Times(r, literal) == [float |-> literal, times |-> r]

\* a one-parameter dict and the list  [{name: v} for v in values]
Dict1(name, v) == [x \in {name} |-> v]
Grid1(name, values) == [i \in 1..Len(values) |-> Dict1(name, values[i])]

\* range(a, b) as a list
range(a, b) == [i \in 1..(b - a) |-> a + i - 1]

Fractions8 ==
    <<Float(".1"), Float(".2"), Float(".3"), Float(".4"),
      Float(".6"), Float(".7"), Float(".8"), Float(".9")>>
QuantileLow == <<Float("0."), Float(".2"), Float(".4"), Float(".6"), Float(".8")>>
QuantileHigh == <<Float(".2"), Float(".4"), Float(".6"), Float(".8"), Float("1.")>>
Widths == <<2, 5, 10, 20>>

\* the fixed table of parameter grids passed to name_to_param.update
Overlay ==
    ModuleDict({
      <<time_reversal_asymmetry_statistic, List(Grid1(param_lag, range(1, 4)))>>,
      <<symmetry_looking,
        List([i \in 1..20 |-> Dict1(param_r, Times(i - 1, "0.05"))])>>,
      <<large_standard_deviation,
        List([i \in 1..10 |-> Dict1(param_r, Times(i - 1, "0.05"))])>>,
      <<quantile, List(Grid1(param_q, Fractions8))>>,
      <<autocorrelation, List(Grid1(param_lag, range(0, 10)))>>,
      <<number_cwt_peaks, List(Grid1(param_n, <<1, 5>>))>>,
      <<number_peaks, List(Grid1(param_n, <<1, 3, 5>>))>>,
      <<large_number_of_peaks, List(Grid1(param_n, <<1, 3, 5>>))>>,
      <<binned_entropy, List(Grid1(param_max_bins, <<10>>))>>,
      <<index_mass_quantile, List(Grid1(param_q, Fractions8))>>,
      <<cwt_coefficients,
        List([i \in 1..60 |->
                ModuleDict({<<param_widths, Widths>>,
                            <<param_coeff, (i - 1) \div 4>>,
                            <<param_w, Widths[((i - 1) % 4) + 1]>>})])>>,
      <<spkt_welch_density, List(Grid1(param_coeff, <<2, 5, 8>>))>>,
      <<ar_coefficient,
        List([i \in 1..5 |->
                ModuleDict({<<param_coeff, i - 1>>, <<param_k, 10>>})])>>,
      <<mean_abs_change_quantiles,
        List([i \in 1..25 |->
                ModuleDict({<<param_ql, QuantileLow[((i - 1) \div 5) + 1]>>,
                            <<param_qh, QuantileHigh[((i - 1) % 5) + 1]>>})])>>,
      <<fft_coefficient, List(Grid1(param_coeff, range(0, 10)))>>,
      <<value_count,
        List(<<Dict1(param_value, Float("0")), Dict1(param_value, Float("1")),
               Dict1(param_value, Float("NaN")), Dict1(param_value, Float("PINF")),
               Dict1(param_value, Float("NINF"))>>)>>,
      <<range_count,
        List(<<ModuleDict({<<param_min, -1>>, <<param_max, 1>>})>>)>>,
      <<approximate_entropy,
        List([i \in 1..5 |->
                ModuleDict({<<param_m, Float("2")>>,
                            <<param_r, <<Float(".1"), Float(".3"), Float(".5"),
                                         Float(".7"), Float(".9")>>[i]>>})])>>
    })

\* dict.update
update(a, b) ==
    [x \in (DOMAIN a) \cup (DOMAIN b) |-> IF x \in DOMAIN b THEN b[x] ELSE a[x]]

IntrospectedUntagged(reg) ==
    {name \in DOMAIN reg : reg[name].callable /\ reg[name].nargs = 1}

\* the calculators found by introspection: callable, tagged fctype, one argument
Introspected(reg) ==
    {name \in DOMAIN reg :
        reg[name].callable /\ reg[name].fctype /\ reg[name].nargs = 1}

ComprehensiveFCParameters(reg) ==
    LET name_to_param == [name \in Introspected(reg) |-> None]
    IN  update(name_to_param, Overlay)

NotMinimalByPresence(f) == f.minimal = "absent"

\* not hasattr(f, "minimal") or not getattr(f, "minimal")
NotMinimal(f) == f.minimal # "true"

HighCompCostByValue(f) == f.high_comp_cost = "true"

\* hasattr(f, "high_comp_cost")
HighCompCost(f) == f.high_comp_cost # "absent"

\* getattr(f, "input", None) != "pd.Series"
NotIndexBased(f) == f.input # "pd.Series"

\* getattr(f, "index_type", False) != pd.DatetimeIndex
NotTimeBased(f) == f.index_type # "DatetimeIndex"

\* the condition under which a variant's constructor deletes a key
Drop(which, f) ==
    CASE which = "minimal" -> NotMinimal(f)
      [] which = "efficient" -> HighCompCost(f)
      [] which = "index_based" -> NotIndexBased(f)
      [] which = "time_based" -> NotTimeBased(f)

\* for fname, f in feature_calculators.__dict__.items():
\*     if fname in self and <condition on f>: del self[fname]
RECURSIVE DeleteWhere(_, _, _, _)
DeleteWhere(settings, reg, todo, which) ==
    IF todo = {} THEN settings
    ELSE LET fname == CHOOSE x \in todo : TRUE
             f == reg[fname]
         IN  DeleteWhere(IF fname \in DOMAIN settings /\ Drop(which, f)
                             THEN DictDel(settings, fname) ELSE settings,
                         reg, todo \ {fname}, which)

MinimalFCParameters(reg) ==
    DeleteWhere(ComprehensiveFCParameters(reg), reg, DOMAIN reg, "minimal")

EfficientFCParameters(reg) ==
    DeleteWhere(ComprehensiveFCParameters(reg), reg, DOMAIN reg, "efficient")

IndexBasedFromRegistry(reg) ==
    [name \in {x \in DOMAIN reg : reg[x].input = "pd.Series"} |-> None]

IndexBasedFCParameters(reg) ==
    DeleteWhere(ComprehensiveFCParameters(reg), reg, DOMAIN reg, "index_based")

TimeBasedFCParameters(reg) ==
    DeleteWhere(ComprehensiveFCParameters(reg), reg, DOMAIN reg, "time_based")

\* a settings object was constructed on the registry
Constructed(name, object) ==
    /\ variant' = name
    /\ self' = object
    /\ comprehensive' = ComprehensiveFCParameters(registry)
    /\ UNCHANGED <<registry, parserVars>>

NewComprehensive ==
    /\ variant = "none"
    /\ Constructed("comprehensive", ComprehensiveFCParameters(registry))

NewMinimal ==
    /\ variant = "none"
    /\ Constructed("minimal", MinimalFCParameters(registry))

NewEfficient ==
    /\ variant = "none"
    /\ Constructed("efficient", EfficientFCParameters(registry))

NewIndexBased ==
    /\ variant = "none"
    /\ Constructed("index_based", IndexBasedFCParameters(registry))

NewTimeBased ==
    /\ variant = "none"
    /\ Constructed("time_based", TimeBasedFCParameters(registry))

\* Registry contents: one of mean (not in the overlay table) and quantile (in
\* it) is any object or missing, the other one of a few objects, and the
\* other overlay names are all missing or all calculators.
FewObjects ==
    { ModuleObject, Calculator(1), Calculator(2),
      [callable |-> TRUE, fctype |-> TRUE, nargs |-> 1, minimal |-> "true",
       high_comp_cost |-> "true", input |-> "pd.Series",
       index_type |-> "DatetimeIndex"] }

Binding(name, objects) == {{}} \cup {{<<name, o>>} : o \in objects}

OtherOverlayNames == (DOMAIN Overlay) \ {quantile}

SettingsRegistries ==
    { ModuleDict(a \cup b \cup c) :
        a \in Binding(mean, Objects), b \in Binding(quantile, FewObjects),
        c \in {{}, {<<name, Calculator(2)>> : name \in OtherOverlayNames}} }
    \cup
    { ModuleDict(a \cup b \cup c) :
        a \in Binding(mean, FewObjects), b \in Binding(quantile, Objects),
        c \in {{}, {<<name, Calculator(2)>> : name \in OtherOverlayNames}} }

InitSettings ==
    /\ registry \in SettingsRegistries
    /\ columns = <<>>
    /\ columns_to_ignore = <<>>
    /\ idx = 1
    /\ kind_to_fc_parameters = EmptyDict
    /\ outcome = "idle"
    /\ variant = "none"
    /\ self = EmptyDict
    /\ comprehensive = EmptyDict

NextSettings ==
    \/ NewComprehensive
    \/ NewMinimal
    \/ NewEfficient
    \/ NewIndexBased
    \/ NewTimeBased

SpecSettings == InitSettings /\ [][NextSettings]_vars

----------------------------------------------------------------------------
(* Properties of the settings objects *)

Derived == {"minimal", "efficient", "index_based", "time_based"}

OverlayRegistered == \A name \in DOMAIN Overlay : IsCalculator(registry, name)

C8_MinimalKeysAreFlagged ==
    variant = "minimal"
        => \A name \in DOMAIN self :
              name \in DOMAIN registry => registry[name].minimal = "true"

C8_Witness ==
    /\ variant = "minimal"
    /\ quantile \in DOMAIN registry
    /\ registry[quantile].minimal = "false"
    /\ quantile \notin DOMAIN self
    /\ mean \in DOMAIN self

\* carries the high_comp_cost attribute
FlaggedHighCost(name) ==
    name \in DOMAIN registry /\ registry[name].high_comp_cost # "absent"

\* C9: the efficient variant is the comprehensive set without the
\* calculators flagged high_comp_cost: those are absent whatever their other
\* flags, every other entry is kept with its comprehensive value.
C9_EfficientIsComprehensiveWithoutHighCost ==
    variant = "efficient"
        => /\ DOMAIN self = {name \in DOMAIN comprehensive : ~FlaggedHighCost(name)}
           /\ \A name \in DOMAIN self : self[name] = comprehensive[name]

C9_Witness ==
    /\ variant = "efficient"
    /\ FlaggedHighCost(quantile)
    /\ registry[quantile].minimal = "true"
    /\ quantile \notin DOMAIN self
    /\ mean \in DOMAIN self
    /\ autocorrelation \in DOMAIN self

\* C10: every key of a derived variant is a key of the comprehensive set
\* built on the same registry, with the same value.
C10_DerivedIsSubsetOfComprehensive ==
    variant \in Derived
        => \A name \in DOMAIN self :
              /\ name \in DOMAIN comprehensive
              /\ self[name] = comprehensive[name]

C10_Witness ==
    /\ variant = "index_based"
    /\ quantile \in DOMAIN self
    /\ mean \in DOMAIN comprehensive
    /\ mean \notin DOMAIN self

----------------------------------------------------------------------------
(* Round trip: column names generated from a settings object, parsed back *)

MaxParamSets == 2

ParamDictPool ==
    { Dict1(param_q, 1), Dict1(param_q, 2),
      ModuleDict({<<param_max_bins, 10>>, <<param_q, -1>>}) }

\* None or a non-empty list of parameter dicts
ConfigPool ==
    {None} \cup {List(l) : l \in ListsUpTo(ParamDictPool, MaxParamSets) \ {<<>>}}

RoundTripCalculators == {mean, quantile}

\* the settings objects fed to the round trip, the empty one included
SettingsPool ==
    UNION {[names -> ConfigPool] : names \in SUBSET RoundTripCalculators}

\* the iteration orders of a dict's keys
Orders(names) ==
    {o \in ListsUpTo(names, Cardinality(names)) :
        Len(o) = Cardinality(names) /\ {o[i] : i \in 1..Len(o)} = names}

\* the column names of one calculator: one per parameter dict, or the bare
\* name for None
ColumnsOfCalculator(kind, name, config) ==
    IF config.none THEN <<ColumnName(kind, name, EmptyDict)>>
    ELSE [i \in 1..Len(config.list) |-> ColumnName(kind, name, config.list[i])]

RECURSIVE ColumnsOf(_, _, _)
ColumnsOf(kind, settings, order) ==
    IF Len(order) = 0 THEN <<>>
    ELSE ColumnsOfCalculator(kind, Head(order), settings[Head(order)])
             \o ColumnsOf(kind, settings, Tail(order))

RoundTripRegistry ==
    ModuleDict({<<mean, Calculator(1)>>, <<quantile, Calculator(2)>>})

InitRoundTrip ==
    /\ registry = RoundTripRegistry
    /\ self \in SettingsPool
    /\ variant = "given"
    /\ comprehensive = EmptyDict
    /\ columns \in {ColumnsOf(kind_x, self, o) : o \in Orders(DOMAIN self)}
    /\ columns_to_ignore = <<>>
    /\ idx = 1
    /\ kind_to_fc_parameters = EmptyDict
    /\ outcome = "running"

NextRoundTrip ==
    \/ AppendConfig
    \/ CreateList
    \/ SetNone
    \/ Return

SpecRoundTrip == InitRoundTrip /\ [][NextRoundTrip]_vars

====
